---- MODULE Spec2Model ----
(***************************************************************************)
(* embeddings_faiss.py: a one-shot tool with two modes over one index      *)
(* directory.  "index" builds a flat L2 index from the chunks of a payload *)
(* and writes faiss.index and meta.json; "query" loads both, searches the  *)
(* k nearest vectors and prints the records at the positions found.        *)
(*                                                                         *)
(* The directory's two files are the shared state.  One index process and  *)
(* one query process are modelled, each stepping through the statements of *)
(* its branch; an uncaught Python exception ends the process ("failed").   *)
(* Vector coordinates are in tenths (10 stands for 1.0); all of them are    *)
(* small integers, which float32 holds exactly.                            *)
(***************************************************************************)
EXTENDS Integers, Sequences, FiniteSets, TLC

\* ---------------------------------------------------------------- bounds
MaxChunks == 2
MaxK == 3
MaxOverlap == 1

\* ---------------------------------------------------------------- inputs
ChunkKeys == {"embedding", "text", "metadata", "context"}

ChunkA == [keys |-> ChunkKeys, embedding |-> <<10, 0>>, text |-> "a", metadata |-> "ma", context |-> "ca"]

ChunkB == [keys |-> ChunkKeys, embedding |-> <<0, 10>>, text |-> "b", metadata |-> "mb", context |-> "cb"]

ChunkC == [keys |-> ChunkKeys, embedding |-> <<50, 50>>, text |-> "c", metadata |-> "mc", context |-> "cc"]

ChunkD == [keys |-> ChunkKeys, embedding |-> <<7>>, text |-> "d", metadata |-> "md", context |-> "cd"]

\* a chunk object lacking one of the keys the index branch reads
Without(c, key) == [c EXCEPT !.keys = @ \ {key}]

Chunks == {ChunkA, ChunkB, ChunkD} \cup {Without(ChunkA, key) : key \in ChunkKeys}

ExampleBatch == <<ChunkA, ChunkB, ChunkC>>

Batches == UNION {[1..m -> Chunks] : m \in 0..MaxChunks} \cup {ExampleBatch}

\* the payload file: not JSON, JSON without "chunks", or JSON with chunks
Payloads ==
    {[parses |-> FALSE, keys |-> {}, chunks |-> <<>>],
     [parses |-> TRUE, keys |-> {}, chunks |-> <<>>]}
    \cup {[parses |-> TRUE, keys |-> {"chunks"}, chunks |-> b] : b \in Batches}

QueryKeys == {"embedding", "k", "context"}

QueryEmbeddings == {<<9, 1>>, <<7>>}

\* argv[2] of query mode: not JSON, JSON lacking one key, or a full document
QueryDocs ==
    {[parses |-> FALSE, keys |-> {}, embedding |-> <<>>, k |-> 1]}
    \cup {[parses |-> TRUE, keys |-> QueryKeys \ {key}, embedding |-> <<9, 1>>, k |-> 1] : key \in QueryKeys}
    \cup {[parses |-> TRUE, keys |-> QueryKeys, embedding |-> e, k |-> k] : e \in QueryEmbeddings, k \in 1..MaxK}

\* ---------------------------------------------------------------- files
\* faiss.index: the dimension and the vectors in insertion order
AbsentIndex == [state |-> "absent", dim |-> 0, vectors |-> <<>>]

WrittenIndex(dim, embeddings) == [state |-> "written", dim |-> dim, vectors |-> embeddings]

\* meta.json: absent, opened for writing and still empty, or a JSON array
AbsentMeta == [state |-> "absent", records |-> <<>>]

TruncatedMeta == [state |-> "truncated", records |-> <<>>]

WrittenMeta(meta) == [state |-> "written", records |-> meta]

\* what a query process holds before it has opened a file
UnreadIndex == [state |-> "unread", dim |-> 0, vectors |-> <<>>]

UnreadMeta == [state |-> "unread", records |-> <<>>]

\* ---------------------------------------------------------------- helpers
RECURSIVE L2sqr(_, _)
\* squared Euclidean distance of two vectors of one length
L2sqr(x, y) ==
    IF x = <<>> THEN 0
    ELSE (Head(x) - Head(y)) * (Head(x) - Head(y)) + L2sqr(Tail(x), Tail(y))

\* the position among S nearest to q, the lower position on equal distance
Nearest(xb, q, S) ==
    CHOOSE b \in S : \A o \in S :
        \/ L2sqr(xb[b + 1], q) < L2sqr(xb[o + 1], q)
        \/ L2sqr(xb[b + 1], q) = L2sqr(xb[o + 1], q) /\ b <= o

RECURSIVE Rank(_, _, _, _)
\* the k result labels: nearest first, -1 once the stored vectors run out
Rank(xb, q, S, k) ==
    IF k = 0 THEN <<>>
    ELSE IF S = {} THEN <<-1>> \o Rank(xb, q, S, k - 1)
    ELSE <<Nearest(xb, q, S)>> \o Rank(xb, q, S \ {Nearest(xb, q, S)}, k - 1)

\* Search with a fault: the first k positions in insertion order, not by distance
Search_InsertionOrder(xb, q, k) == [j \in 1..k |-> IF j <= Len(xb) THEN j - 1 ELSE -1]

\* IndexFlatL2.search for one query vector: row I[0] of the labels
Search(xb, q, k) == Rank(xb, q, 0 .. Len(xb) - 1, k)

\* Python's list[i]: negative i counts from the end
InRange(list, i) == -Len(list) <= i /\ i < Len(list)

GetItem(list, i) == IF i >= 0 THEN list[i + 1] ELSE list[Len(list) + i + 1]

\* the record the index branch stores for a chunk
Record(c) == [text |-> c.text, metadata |-> c.metadata, context |-> c.context]

HasAll(chunks, key) == \A i \in 1..Len(chunks) : key \in chunks[i].keys

\* IsRagged with a fault: rows of differing lengths are accepted
IsRagged_Never(embeddings) == FALSE

\* np.array over the embeddings refuses rows of differing lengths
IsRagged(embeddings) ==
    \E i, j \in 1..Len(embeddings) : Len(embeddings[i]) # Len(embeddings[j])

\* embeddings.shape[1] does not exist for an array built from no rows
NoShape1(embeddings) == Len(embeddings) = 0

\* ---------------------------------------------------------------- state
VARIABLES index_file, meta_file, idx, qry, concurrent

vars == <<index_file, meta_file, idx, qry, concurrent>>

IdxIdle ==
    [pc |-> "idle", payload |-> [parses |-> FALSE, keys |-> {}, chunks |-> <<>>],
     chunks |-> <<>>, embeddings |-> <<>>, dim |-> 0, meta |-> <<>>,
     err |-> "", printed |-> -1, wrote |-> <<>>,
     prev_index |-> AbsentIndex, prev_meta |-> AbsentMeta]

QryIdle ==
    [pc |-> "idle", query_json |-> [parses |-> FALSE, keys |-> {}, embedding |-> <<>>, k |-> 1],
     q_emb |-> <<>>, k |-> 0, index |-> UnreadIndex, I |-> <<>>, meta |-> UnreadMeta,
     results |-> <<>>, err |-> "", printed |-> FALSE,
     overlaps |-> 0, ov_chunks |-> <<>>, ov_index |-> AbsentIndex, ov_meta |-> AbsentMeta]

Init ==
    /\ index_file = AbsentIndex
    /\ meta_file = AbsentMeta
    /\ idx = IdxIdle
    /\ qry = QryIdle
    /\ concurrent = FALSE

InitConcurrent ==
    /\ index_file = AbsentIndex
    /\ meta_file = AbsentMeta
    /\ idx = IdxIdle
    /\ qry = QryIdle
    /\ concurrent = TRUE

IdxFail(e) == idx' = [idx EXCEPT !.pc = "failed", !.err = e]

QryFail(e) == qry' = [qry EXCEPT !.pc = "failed", !.err = e]

\* a process between its first statement and its end
Active(p) == p.pc \notin {"idle", "done", "failed"}

\* a process that has ended and is about to exit; it exits before the other
\* process takes its next step
Terminated(p) == p.pc \in {"done", "failed"}

IdxAt(line) == idx.pc = line /\ ~Terminated(qry)

QryAt(line) == qry.pc = line /\ ~Terminated(idx)

\* ---------------------------------------------------------------- index mode
\* python embeddings_faiss.py index <payload.json> <indexdir>
StartIndex ==
    /\ IdxAt("idle")
    /\ IF concurrent THEN qry.pc = "idle" \/ qry.overlaps < MaxOverlap ELSE qry.pc = "idle"
    /\ \E p \in Payloads :
        /\ idx' = [IdxIdle EXCEPT !.pc = "L19", !.payload = p,
                                  !.prev_index = index_file, !.prev_meta = meta_file]
        /\ qry' = IF Active(qry)
                  THEN [qry EXCEPT !.overlaps = @ + 1, !.ov_chunks = p.chunks,
                                   !.ov_index = index_file, !.ov_meta = meta_file]
                  ELSE qry
    /\ UNCHANGED <<index_file, meta_file, concurrent>>

\* lines 19-21: data = json.load(open(payload)); chunks = data["chunks"]
IndexLoad ==
    /\ IdxAt("L19")
    /\ IF ~idx.payload.parses THEN IdxFail("JSONDecodeError")
       ELSE IF "chunks" \notin idx.payload.keys THEN IdxFail("KeyError")
       ELSE idx' = [idx EXCEPT !.pc = "L22", !.chunks = idx.payload.chunks]
    /\ UNCHANGED <<index_file, meta_file, qry, concurrent>>

\* IndexEmbed with a fault: an array built from no rows gets dimension 0
IndexEmbed_EmptyAccepted ==
    /\ IdxAt("L22")
    /\ IF ~HasAll(idx.chunks, "embedding") THEN IdxFail("KeyError")
       ELSE LET embeddings == [i \in 1..Len(idx.chunks) |-> idx.chunks[i].embedding]
            IN  IF IsRagged(embeddings) THEN IdxFail("ValueError")
                ELSE idx' = [idx EXCEPT !.pc = "L28", !.embeddings = embeddings,
                                        !.dim = IF embeddings = <<>> THEN 0
                                                ELSE Len(embeddings[1])]
    /\ UNCHANGED <<index_file, meta_file, qry, concurrent>>

\* lines 22-26: the float32 array of the embeddings, its dimension, the index
IndexEmbed ==
    /\ IdxAt("L22")
    /\ IF ~HasAll(idx.chunks, "embedding") THEN IdxFail("KeyError")
       ELSE LET embeddings == [i \in 1..Len(idx.chunks) |-> idx.chunks[i].embedding]
            IN  IF IsRagged(embeddings) THEN IdxFail("ValueError")
                ELSE IF NoShape1(embeddings) THEN IdxFail("IndexError")
                ELSE idx' = [idx EXCEPT !.pc = "L28", !.embeddings = embeddings,
                                        !.dim = Len(embeddings[1])]
    /\ UNCHANGED <<index_file, meta_file, qry, concurrent>>

\* IndexWrite with a fault: the index is never written to faiss.index
IndexWrite_Skipped ==
    /\ IdxAt("L28")
    /\ idx' = [idx EXCEPT !.pc = "L31"]
    /\ UNCHANGED <<index_file, meta_file, qry, concurrent>>

\* line 28: faiss.write_index(index, index_file)
IndexWrite ==
    /\ IdxAt("L28")
    /\ index_file' = WrittenIndex(idx.dim, idx.embeddings)
    /\ idx' = [idx EXCEPT !.pc = "L31", !.wrote = Append(@, "faiss.index")]
    /\ UNCHANGED <<meta_file, qry, concurrent>>

\* lines 31-34: meta = [{"text": ..., "metadata": ..., "context": ...} for c in chunks]
IndexMeta ==
    /\ IdxAt("L31")
    /\ IF \E key \in {"text", "metadata", "context"} : ~HasAll(idx.chunks, key)
       THEN IdxFail("KeyError")
       ELSE idx' = [idx EXCEPT !.pc = "L35",
                               !.meta = [i \in 1..Len(idx.chunks) |-> Record(idx.chunks[i])]]
    /\ UNCHANGED <<index_file, meta_file, qry, concurrent>>

\* line 35, open(meta_file, "w"): the file is created or cut to length zero
IndexOpenMeta ==
    /\ IdxAt("L35")
    /\ meta_file' = TruncatedMeta
    /\ idx' = [idx EXCEPT !.pc = "L35dump"]
    /\ UNCHANGED <<index_file, qry, concurrent>>

\* line 35, json.dump(meta, ...): the array reaches the file
IndexDumpMeta ==
    /\ IdxAt("L35dump")
    /\ meta_file' = WrittenMeta(idx.meta)
    /\ idx' = [idx EXCEPT !.pc = "L37", !.wrote = Append(@, "meta.json")]
    /\ UNCHANGED <<index_file, qry, concurrent>>

\* line 37: print(f"Indexed {len(chunks)} chunks.")
IndexPrint ==
    /\ IdxAt("L37")
    /\ idx' = [idx EXCEPT !.pc = "done", !.printed = Len(idx.chunks)]
    /\ UNCHANGED <<index_file, meta_file, qry, concurrent>>

\* the index process exits
IndexExit ==
    /\ idx.pc \in {"done", "failed"}
    /\ idx' = IdxIdle
    /\ UNCHANGED <<index_file, meta_file, qry, concurrent>>

\* ---------------------------------------------------------------- query mode
\* python embeddings_faiss.py query <query_json> <indexdir>
StartQuery ==
    /\ QryAt("idle")
    /\ IF concurrent THEN idx.pc = "idle" \/ MaxOverlap >= 1 ELSE idx.pc = "idle"
    /\ \E d \in QueryDocs :
        qry' = IF Active(idx)
               THEN [QryIdle EXCEPT !.pc = "L40", !.query_json = d, !.overlaps = 1,
                                    !.ov_chunks = idx.payload.chunks,
                                    !.ov_index = idx.prev_index, !.ov_meta = idx.prev_meta]
               ELSE [QryIdle EXCEPT !.pc = "L40", !.query_json = d]
    /\ UNCHANGED <<index_file, meta_file, idx, concurrent>>

\* lines 40-43: parse argv[2]; read "embedding", "k", "context" in that order
QueryParse ==
    /\ QryAt("L40")
    /\ IF ~qry.query_json.parses THEN QryFail("JSONDecodeError")
       ELSE IF QueryKeys \ qry.query_json.keys # {} THEN QryFail("KeyError")
       ELSE qry' = [qry EXCEPT !.pc = "L45", !.q_emb = qry.query_json.embedding,
                               !.k = qry.query_json.k]
    /\ UNCHANGED <<index_file, meta_file, idx, concurrent>>

\* QueryReadIndex with a fault: a missing faiss.index reads as an empty index
QueryReadIndex_AbsentAsEmpty ==
    /\ QryAt("L45")
    /\ qry' = [qry EXCEPT !.pc = "L46", !.index = index_file]
    /\ UNCHANGED <<index_file, meta_file, idx, concurrent>>

\* line 45: index = faiss.read_index(index_file)
QueryReadIndex ==
    /\ QryAt("L45")
    /\ IF index_file.state = "absent" THEN QryFail("RuntimeError")
       ELSE qry' = [qry EXCEPT !.pc = "L46", !.index = index_file]
    /\ UNCHANGED <<index_file, meta_file, idx, concurrent>>

\* line 46: D, I = index.search(q_emb, k); the wrapper asserts the dimension
QuerySearch ==
    /\ QryAt("L46")
    /\ IF Len(qry.q_emb) # qry.index.dim THEN QryFail("AssertionError")
       ELSE qry' = [qry EXCEPT !.pc = "L48", !.I = Search(qry.index.vectors, qry.q_emb, qry.k)]
    /\ UNCHANGED <<index_file, meta_file, idx, concurrent>>

\* QueryLoadMeta with a fault: meta.json is opened for writing
QueryLoadMeta_OpensForWriting ==
    /\ QryAt("L48")
    /\ meta_file' = TruncatedMeta
    /\ qry' = [qry EXCEPT !.pc = "failed", !.err = "UnsupportedOperation", !.meta = TruncatedMeta]
    /\ UNCHANGED <<index_file, idx, concurrent>>

\* line 48: meta = json.load(open(meta_file))
QueryLoadMeta ==
    /\ QryAt("L48")
    /\ IF meta_file.state = "absent"
       THEN qry' = [qry EXCEPT !.pc = "failed", !.err = "FileNotFoundError", !.meta = meta_file]
       ELSE IF meta_file.state = "truncated"
       THEN qry' = [qry EXCEPT !.pc = "failed", !.err = "JSONDecodeError", !.meta = meta_file]
       ELSE qry' = [qry EXCEPT !.pc = "L50", !.meta = meta_file]
    /\ UNCHANGED <<index_file, meta_file, idx, concurrent>>

\* line 50: results = [meta[i] for i in I[0]]
QueryProject ==
    /\ QryAt("L50")
    /\ IF \E j \in 1..Len(qry.I) : ~InRange(qry.meta.records, qry.I[j])
       THEN QryFail("IndexError")
       ELSE qry' = [qry EXCEPT !.pc = "L51",
                               !.results = [j \in 1..Len(qry.I) |-> GetItem(qry.meta.records, qry.I[j])]]
    /\ UNCHANGED <<index_file, meta_file, idx, concurrent>>

\* line 51: print(json.dumps(results))
QueryPrint ==
    /\ QryAt("L51")
    /\ qry' = [qry EXCEPT !.pc = "done", !.printed = TRUE]
    /\ UNCHANGED <<index_file, meta_file, idx, concurrent>>

\* the query process exits
QueryExit ==
    /\ qry.pc \in {"done", "failed"}
    /\ qry' = QryIdle
    /\ UNCHANGED <<index_file, meta_file, idx, concurrent>>

Next ==
    \/ StartIndex \/ IndexLoad \/ IndexEmbed \/ IndexWrite \/ IndexMeta
    \/ IndexOpenMeta \/ IndexDumpMeta \/ IndexPrint \/ IndexExit
    \/ StartQuery \/ QueryParse \/ QueryReadIndex \/ QuerySearch
    \/ QueryLoadMeta \/ QueryProject \/ QueryPrint \/ QueryExit

\* one invocation at a time on the directory
Spec == Init /\ [][Next]_vars

\* an index invocation and a query invocation may run at the same time
SpecConcurrent == InitConcurrent /\ [][Next]_vars

\* ---------------------------------------------------------------- properties
EmbeddingsOf(chunks) == [i \in 1..Len(chunks) |-> chunks[i].embedding]

RecordsOf(chunks) == [i \in 1..Len(chunks) |-> Record(chunks[i])]

\* some two chunks carry embeddings of differing lengths
Differing(chunks) ==
    \E i, j \in 1..Len(chunks) :
        /\ "embedding" \in chunks[i].keys /\ "embedding" \in chunks[j].keys
        /\ Len(chunks[i].embedding) # Len(chunks[j].embedding)

\* a batch the index branch accepts: one chunk or more, every key present,
\* embeddings of one length
GoodBatch(chunks) ==
    /\ chunks # <<>>
    /\ \A i \in 1..Len(chunks) : chunks[i].keys = ChunkKeys
    /\ ~Differing(chunks)

\* record i and vector i are the two halves of one chunk, for every i
Aligned(vectors, records) ==
    /\ Len(vectors) = Len(records)
    /\ \A i \in 1..Len(vectors) : \E c \in Chunks \cup {ChunkC} :
        c.keys = ChunkKeys /\ c.embedding = vectors[i] /\ Record(c) = records[i]

\* the directory holds the two files of one batch
Built ==
    /\ index_file.state = "written"
    /\ meta_file.state = "written"
    /\ Aligned(index_file.vectors, meta_file.records)

GoodQuery == qry.query_json.parses /\ qry.query_json.keys = QueryKeys

StoredCount == Len(index_file.vectors)

Dist(i) == L2sqr(index_file.vectors[i + 1], qry.query_json.embedding)

\* C1: a well-formed query of the stored dimension with k > n against a
\* built index of n >= 1 vectors ends without error and prints exactly n
\* records, one per stored position, each position once.
C1_KAboveNReturnsN ==
    (/\ Terminated(qry) /\ GoodQuery /\ Built
     /\ Len(qry.query_json.embedding) = index_file.dim
     /\ qry.query_json.k > StoredCount)
    => /\ qry.pc = "done"
       /\ qry.printed
       /\ Len(qry.results) = StoredCount
       /\ \A i \in 0 .. StoredCount - 1 :
            Cardinality({j \in 1..Len(qry.I) : qry.I[j] = i}) = 1

\* C2: when an index invocation fails, faiss.index and meta.json are exactly
\* as they were when the invocation started.
C2_FailedIndexWritesNothing ==
    idx.pc = "failed" => index_file = idx.prev_index /\ meta_file = idx.prev_meta

\* C3: between index invocations, whenever both files exist, meta.json has as
\* many records as faiss.index has vectors and record i and vector i come
\* from the same chunk.
C3_PositionalAlignment ==
    (~Active(idx) /\ index_file.state = "written" /\ meta_file.state = "written")
    => Aligned(index_file.vectors, meta_file.records)

\* C4: a well-formed query of the stored dimension with 1 <= k <= n against
\* an index of n vectors built from a batch ends without error and prints
\* exactly k records: those of k distinct stored positions, in ascending
\* squared Euclidean distance to the query vector, no stored vector left out
\* being strictly closer than one returned.
C4_TopKAscending ==
    (/\ Terminated(qry) /\ GoodQuery /\ Built
     /\ Len(qry.query_json.embedding) = index_file.dim
     /\ qry.query_json.k <= StoredCount)
    => /\ qry.pc = "done"
       /\ qry.printed
       /\ Len(qry.results) = qry.query_json.k
       /\ Len(qry.I) = qry.query_json.k
       /\ \A j \in 1..Len(qry.I) :
            /\ qry.I[j] \in 0 .. StoredCount - 1
            /\ qry.results[j] = meta_file.records[qry.I[j] + 1]
       /\ \A i, j \in 1..Len(qry.I) : i # j => qry.I[i] # qry.I[j]
       /\ \A i, j \in 1..Len(qry.I) : i < j => Dist(qry.I[i]) <= Dist(qry.I[j])
       /\ \A o \in 0 .. StoredCount - 1 : \A j \in 1..Len(qry.I) :
            (\A i \in 1..Len(qry.I) : qry.I[i] # o) => Dist(o) >= Dist(qry.I[j])

\* the example of the specification: a then b
C4_Witness ==
    /\ qry.pc = "done"
    /\ index_file.vectors = EmbeddingsOf(ExampleBatch)
    /\ meta_file.records = RecordsOf(ExampleBatch)
    /\ qry.query_json.embedding = <<9, 1>>
    /\ qry.query_json.k = 2
    /\ qry.results = <<Record(ChunkA), Record(ChunkB)>>

\* C5: an index invocation whose chunks carry embeddings of differing
\* lengths never gets past building the array: it fails (ValueError when
\* every chunk has an embedding) and both files stay as they were; a
\* well-formed query whose embedding length differs from the stored
\* dimension fails with AssertionError and prints nothing.
C5_DimensionMismatch ==
    /\ (idx.pc # "idle" /\ Differing(idx.payload.chunks))
       => /\ idx.pc \in {"L19", "L22", "failed"}
          /\ idx.wrote = <<>>
          /\ idx.printed = -1
          /\ index_file = idx.prev_index /\ meta_file = idx.prev_meta
          /\ (idx.pc = "failed" /\ HasAll(idx.payload.chunks, "embedding"))
             => idx.err = "ValueError"
    /\ (/\ Terminated(qry) /\ GoodQuery /\ index_file.state = "written"
        /\ Len(qry.query_json.embedding) # index_file.dim)
       => /\ qry.pc = "failed"
          /\ qry.err = "AssertionError"
          /\ ~qry.printed
          /\ qry.results = <<>>

\* a batch of differing lengths has failed over an index written earlier
C5_Witness ==
    /\ idx.pc = "failed"
    /\ idx.err = "ValueError"
    /\ Differing(idx.payload.chunks)
    /\ index_file.state = "written"
    /\ meta_file.state = "written"

\* C6: an index invocation whose payload holds zero chunks ends in an error
\* (IndexError at the dimension), writes neither file and prints no count.
C6_EmptyBatch ==
    (idx.pc # "idle" /\ idx.payload.parses /\ "chunks" \in idx.payload.keys
     /\ idx.payload.chunks = <<>>)
    => /\ idx.pc \in {"L19", "L22", "failed"}
       /\ idx.pc = "failed" => idx.err = "IndexError"
       /\ idx.wrote = <<>>
       /\ idx.printed = -1
       /\ index_file = idx.prev_index /\ meta_file = idx.prev_meta

C6_Witness ==
    /\ idx.pc = "failed"
    /\ idx.err = "IndexError"
    /\ idx.payload.parses /\ "chunks" \in idx.payload.keys
    /\ idx.chunks = <<>>
    /\ index_file.state = "absent"
    /\ meta_file.state = "absent"

\* C7: a query against a directory lacking faiss.index or meta.json ends in
\* an error and prints no result; a well-formed query fails at the load of
\* the file that is missing.
C7_IndexNotFound ==
    (Terminated(qry) /\ (index_file.state # "written" \/ meta_file.state # "written"))
    => /\ qry.pc = "failed"
       /\ ~qry.printed
       /\ (GoodQuery /\ index_file.state = "absent") => qry.err = "RuntimeError"
       /\ (/\ GoodQuery /\ index_file.state = "written"
           /\ Len(qry.query_json.embedding) = index_file.dim)
          => qry.err = "FileNotFoundError"

\* no index invocation has ever run on the directory
C7_Witness ==
    /\ qry.pc = "failed"
    /\ qry.err = "RuntimeError"
    /\ GoodQuery
    /\ index_file.state = "absent"
    /\ meta_file.state = "absent"

\* C8: a query that overlaps one index invocation rebuilding a directory
\* that holds both files sees, once it has opened meta.json, either the two
\* files as they were before that invocation or the two files of that
\* invocation, never a mix and never a truncated meta.json.
C8_AtomicReplace ==
    (/\ qry.overlaps = 1 /\ qry.meta.state # "unread" /\ GoodBatch(qry.ov_chunks)
     /\ qry.ov_index.state = "written" /\ qry.ov_meta.state = "written")
    => \/ qry.index = qry.ov_index /\ qry.meta = qry.ov_meta
       \/ /\ qry.index = WrittenIndex(Len(qry.ov_chunks[1].embedding), EmbeddingsOf(qry.ov_chunks))
          /\ qry.meta = WrittenMeta(RecordsOf(qry.ov_chunks))

\* C9: the count is printed only after faiss.index and then meta.json have
\* been written by the invocation, and it equals the number of chunks of the
\* payload, of vectors in faiss.index and of records in meta.json.
C9_CountAfterBothWritten ==
    /\ idx.wrote \in {<<>>, <<"faiss.index">>, <<"faiss.index", "meta.json">>}
    /\ idx.printed # -1
       => /\ idx.wrote = <<"faiss.index", "meta.json">>
          /\ idx.printed = Len(idx.payload.chunks)
          /\ index_file = WrittenIndex(Len(idx.payload.chunks[1].embedding),
                                       EmbeddingsOf(idx.payload.chunks))
          /\ meta_file = WrittenMeta(RecordsOf(idx.payload.chunks))
          /\ Len(index_file.vectors) = idx.printed
          /\ Len(meta_file.records) = idx.printed

\* a rebuild with a batch of another size has printed its count
C9_Witness ==
    /\ idx.pc = "done"
    /\ idx.printed = 2
    /\ idx.prev_index.state = "written"
    /\ Len(idx.prev_index.vectors) # 2

\* C10: no step of a query invocation, succeeding or failing, changes
\* faiss.index or meta.json or creates either file.
C10_QueryReadOnly ==
    [][qry' # qry => (index_file' = index_file /\ meta_file' = meta_file)]_vars

\* a query has failed at the projection (meta.json shorter than the index)
\* and the directory still holds both files
C10_Witness ==
    /\ qry.pc = "failed"
    /\ qry.err = "IndexError"
    /\ index_file.state = "written"
    /\ meta_file.state = "written"

====
